---- MODULE Spec2Model ----
(***************************************************************************)
(* LiveDownloader (src/src/core/live_downloader.ts): the bounded           *)
(* concurrency chunk scheduler (checkQueue), the cooperative shutdown      *)
(* (SIGINT / end handlers) and the reassembly planner (beforeExit, clean). *)
(*                                                                         *)
(* Every handler of the single-threaded event loop is one action: it runs  *)
(* from the event to the next await.  process.exit() ends the run: no      *)
(* action is enabled once exit # "none".                                   *)
(***************************************************************************)
EXTENDS Integers, Sequences, FiniteSets, TLC

\* ---------------------------------------------------------------- bounds
\* the concurrency cap of a run (16 in the source, an operator-overridable
\* setting)
MaxThreads == 1
\* chunks the observer announces in one run of the scheduler model
MaxChunks == 2
\* largest discovery batch
MaxBatch == 2
\* how many different chunks have a download that fails in one run
MaxFlaky == 1
\* chunk ids of the finished sets the planner model starts from
MaxPlanId == 5

\* ------------------------------------------------------ program constants
\* live_downloader.ts:143   if (task.retry <= 10)
RetryBudget == 10
\* live_downloader.ts:275   Math.min(45000, 15000 + 15000 * task.retry)
TimeoutCeiling == 45000
TimeoutBase == 15000
TimeoutStep == 15000

Kinds == {"video", "audio"}

PlanIds == 1..MaxPlanId

\* interface Task (url and outputPath are functions of type and id)
Task(ty, i, r) == [type |-> ty, id |-> i, retry |-> r]

\* the identity of a task object, whatever its retry count
Key(t) == <<t.type, t.id>>

VARIABLES
    unfinishedTasks,        \* Task[]  the pending queue
    finishedTasks,          \* Task[]
    dropedTasks,            \* Task[]
    outputFiles,            \* OutputItem[]
    maxRunningThreads,      \* the concurrency cap
    nowRunningThreads,
    stopFlag,
    finishFlag,
    keepTemporaryFiles,
    isLowLatencyLiveStream,
    isFFmpegAvailable,
    inFlight,               \* tasks whose handleTask is awaited
    connected,              \* the observer has not been disconnected
    ended,                  \* the observer has emitted 'end'
    flaky,                  \* keys of the chunks whose download has failed
    exit,                   \* "none", or why the process has exited
    workDirExists,
    pc,                     \* where beforeExit / clean is suspended
    seqs,                   \* beforeExit's seqs (<<>> until computed)
    survivors,              \* beforeExit's finishedVideoTasks after the filter
    dropCounter,
    idx,                    \* the merge loop's i, 1-based
    fatalError,             \* the parity error has been logged
    mergeCalls,             \* calls of merge / mergeSequences so far
    mergeErrors,            \* merges logged as failed so far (222, 247)
    dequeued,               \* tasks the last handler shifted, in shift order
    started,                \* handleTask calls of the last handler, in order
    settled,                \* flips when a handleTask call resolves or rejects
    beforeExitCalls,        \* calls of beforeExit so far
    completionSeen,         \* times checkQueue saw its first condition true
    interrupts,             \* SIGINTs delivered so far
    discovered,             \* keys of all tasks ever pushed by discovery
    exhausted               \* keys of tasks whose retry exceeded the budget

schedVars == <<unfinishedTasks, nowRunningThreads, inFlight, stopFlag,
               finishFlag, beforeExitCalls, completionSeen, dequeued, started,
               settled>>

finVars == <<finishedTasks, outputFiles, connected, exit, workDirExists, pc,
             seqs, survivors, dropCounter, idx, fatalError, mergeCalls,
             mergeErrors>>

envVars == <<keepTemporaryFiles, isLowLatencyLiveStream, isFFmpegAvailable,
             flaky, dropedTasks, maxRunningThreads>>

vars == <<schedVars, finVars, envVars, ended, interrupts, discovered, exhausted>>

\* ------------------------------------------------------------ sequences
Range(s) == {s[k] : k \in 1..Len(s)}

Keys(s) == {Key(s[k]) : k \in 1..Len(s)}

RECURSIVE InsertById(_, _)
InsertById(s, t) ==
    IF s = <<>> THEN <<t>>
    ELSE IF s[Len(s)].id - t.id <= 0 THEN Append(s, t)
    ELSE Append(InsertById(SubSeq(s, 1, Len(s) - 1), t), s[Len(s)])

\* Array.prototype.sort((a, b) => a.id - b.id), stable
RECURSIVE SortById(_)
SortById(s) ==
    IF s = <<>> THEN <<>>
    ELSE InsertById(SortById(SubSeq(s, 1, Len(s) - 1)), s[Len(s)])

FilterType(s, ty) == SelectSeq(s, LAMBDA t : t.type = ty)

\* ------------------------------------------------- the reassembly planner
\* the parity check left out
ParityMismatchNever(video, audio) == FALSE

\* beforeExit 159: finishedVideoTasks.length !== finishedAudioTasks.length
ParityMismatch(video, audio) == Len(video) # Len(audio)

\* beforeExit 166-170: the sparse array audioIdFlags
AudioIdFlags(audio) == [i \in {audio[k].id : k \in 1..Len(audio)} |-> TRUE]

\* audioIdFlags[id] read as a condition: a hole of the array is undefined
FlagAt(flags, i) == i \in DOMAIN flags /\ flags[i]

\* beforeExit 172: !audioIdFlags, and an array object is never falsy
ArrayIsFalsy(flags) == FALSE

\* the filter returning the array instead of its element: always truthy
OrphanFilterKeepAll(video, flags) == video

\* beforeExit 171-176: the filter's result
OrphanFilter(video, flags) == SelectSeq(video, LAMBDA t : FlagAt(flags, t.id))

\* beforeExit 167, 172-174: dropCounter after the filter
DropCount(video, flags) ==
    Cardinality({k \in 1..Len(video) : ArrayIsFalsy(flags)})

\* beforeExit 189-194: the loop from JS index i = k - 1 on
RECURSIVE GroupFrom(_, _, _)
GroupFrom(fv, k, acc) ==
    IF k > Len(fv) THEN acc
    ELSE LET acc1 == IF fv[k].id - fv[k - 1].id # 1
                     THEN Append(acc, <<>>) ELSE acc
             acc2 == [acc1 EXCEPT ![Len(acc1)] = Append(@, fv[k])]
         IN  GroupFrom(fv, k + 1, acc2)

\* beforeExit 182-195
GroupSeqs(fv) ==
    IF Len(fv) = 1 THEN << <<fv[1]>> >>
    ELSE GroupFrom(fv, 2, << <<>> >>)

\* beforeExit 197-202: seqs[i][0].id of an empty group is a TypeError
ReportThrows(sq) ==
    Len(sq) > 1 /\ \E i \in 1..Len(sq) : sq[i] = <<>>

\* beforeExit 203, 215, 240: useSuffix ? i + 1 : undefined (0: no suffix)
Suffix(sq, i) == IF Len(sq) > 1 THEN i ELSE 0

\* beforeExit 216-219: the low-latency item formats the task objects themselves
DirectItem(sq, i) ==
    [path |-> Suffix(sq, i),
     description |-> IF sq[i] = <<>> THEN <<"undefined", "undefined">>
                     ELSE <<"[object Object]", "[object Object]">>]

\* beforeExit 241-244 (only evaluated for a non-empty group)
ListItem(sq, i) ==
    [path |-> Suffix(sq, i),
     description |-> <<sq[i][1].id, sq[i][Len(sq[i])].id>>]

\* the variables beforeExit and clean work on, as one record
Fin ==
    [finishedTasks |-> finishedTasks, outputFiles |-> outputFiles,
     connected |-> connected, exit |-> exit, workDirExists |-> workDirExists,
     pc |-> pc, seqs |-> seqs, survivors |-> survivors,
     dropCounter |-> dropCounter, idx |-> idx, fatalError |-> fatalError,
     mergeCalls |-> mergeCalls, mergeErrors |-> mergeErrors]

SetFin(f) ==
    /\ finishedTasks' = f.finishedTasks
    /\ outputFiles' = f.outputFiles
    /\ connected' = f.connected
    /\ exit' = f.exit
    /\ workDirExists' = f.workDirExists
    /\ pc' = f.pc
    /\ seqs' = f.seqs
    /\ survivors' = f.survivors
    /\ dropCounter' = f.dropCounter
    /\ idx' = f.idx
    /\ fatalError' = f.fatalError
    /\ mergeCalls' = f.mergeCalls
    /\ mergeErrors' = f.mergeErrors

\* clean 254-258 up to the await of deleteDirectory, or 259-270 when the
\* temporary files are kept
CleanStart(f) ==
    IF ~keepTemporaryFiles THEN [f EXCEPT !.pc = "deleteDirectory"]
    ELSE [f EXCEPT !.connected = FALSE, !.exit = "clean", !.pc = "exited"]

\* beforeExit 204-250: iteration i of the merge loop up to its first await,
\* or clean() after the last one (251)
IterStart(f, i) ==
    IF i > Len(f.seqs) THEN CleanStart(f)
    ELSE IF isLowLatencyLiveStream
         THEN [f EXCEPT !.idx = i, !.pc = "mergeFilesVideo"]
         ELSE [f EXCEPT !.idx = i, !.pc = "mergeSequences",
                        !.mergeCalls = @ + 1]

\* beforeExit 150-213 / 150-240: from the call to the first await
BeforeExitStart(f) ==
    IF Len(f.finishedTasks) = 0 THEN CleanStart(f)
    ELSE LET sorted == SortById(f.finishedTasks)
             video  == FilterType(sorted, "video")
             audio  == FilterType(sorted, "audio")
             flags  == AudioIdFlags(audio)
             surv   == OrphanFilter(video, flags)
             sq     == GroupSeqs(surv)
             g      == [f EXCEPT !.finishedTasks = sorted]
         IN  IF ParityMismatch(video, audio)
             THEN [g EXCEPT !.fatalError = TRUE, !.exit = "parity",
                            !.pc = "exited"]
             ELSE LET h == [g EXCEPT !.survivors = surv, !.seqs = sq,
                                     !.dropCounter = DropCount(video, flags)]
                  IN  IF ReportThrows(sq) THEN [h EXCEPT !.pc = "rejected"]
                      ELSE IterStart(h, 1)

\* ---------------------------------------------------------- the scheduler
\* the fields checkQueue reads and writes, as one record
Sched ==
    [unf |-> unfinishedTasks, run |-> nowRunningThreads, inf |-> inFlight,
     stop |-> stopFlag, finish |-> finishFlag, calls |-> beforeExitCalls,
     seen |-> completionSeen, deq |-> dequeued, sta |-> started,
     done |-> settled]

SetSched(q) ==
    /\ unfinishedTasks' = q.unf
    /\ nowRunningThreads' = q.run
    /\ inFlight' = q.inf
    /\ stopFlag' = q.stop
    /\ finishFlag' = q.finish
    /\ beforeExitCalls' = q.calls
    /\ completionSeen' = q.seen
    /\ dequeued' = q.deq
    /\ started' = q.sta
    /\ settled' = q.done

\* the completion condition without the stop flag
CompletionConditionNoStop(q) == q.run = 0 /\ Len(q.unf) = 0

\* checkQueue 117
CompletionCondition(q) == q.run = 0 /\ Len(q.unf) = 0 /\ q.stop

\* the timeout without its ceiling
HandleTaskTimeoutLinear(t) == TimeoutBase + TimeoutStep * t.retry

\* handleTask 273-277: the timeout of the download of task t
HandleTaskTimeout(t) ==
    LET linear == TimeoutBase + TimeoutStep * t.retry
    IN  IF TimeoutCeiling <= linear THEN TimeoutCeiling ELSE linear

\* checkQueue 129-130: nowRunningThreads++, unfinishedTasks.shift()
Shift(q) ==
    [q EXCEPT !.run = @ + 1,
              !.unf = Tail(@),
              !.inf = @ \cup {Head(q.unf)},
              !.deq = Append(@, Head(q.unf))]

\* checkQueue 134: handleTask(task), called once the call of 131 is back
CallHandleTask(r, t) ==
    [r EXCEPT !.sta = Append(@, [task |-> t,
                                 timeout |-> HandleTaskTimeout(t)])]

\* checkQueue without the test of 123-125
RECURSIVE checkQueueNoCap(_)
checkQueueNoCap(q) ==
    LET q0 == IF CompletionCondition(q) THEN [q EXCEPT !.seen = @ + 1] ELSE q
        q1 == IF CompletionCondition(q) /\ ~q.finish
              THEN [q0 EXCEPT !.finish = TRUE, !.calls = @ + 1]
              ELSE q0
    IN  IF Len(q1.unf) = 0 THEN q1
        ELSE CallHandleTask(checkQueueNoCap(Shift(q1)), Head(q1.unf))

\* checkQueue without the finishFlag latch of 118-119
RECURSIVE checkQueueNoLatch(_)
checkQueueNoLatch(q) ==
    LET q0 == IF CompletionCondition(q) THEN [q EXCEPT !.seen = @ + 1] ELSE q
        q1 == IF CompletionCondition(q)
              THEN [q0 EXCEPT !.finish = TRUE, !.calls = @ + 1]
              ELSE q0
    IN  IF q1.run >= maxRunningThreads THEN q1
        ELSE IF Len(q1.unf) = 0 THEN q1
        ELSE CallHandleTask(checkQueueNoLatch(Shift(q1)), Head(q1.unf))

\* checkQueue 116-134: one call with the calls it makes of itself, up to the
\* awaits of handleTask; beforeExit is counted here and run by the caller
RECURSIVE checkQueue(_)
checkQueue(q) ==
    LET q0 == IF CompletionCondition(q) THEN [q EXCEPT !.seen = @ + 1] ELSE q
        q1 == IF CompletionCondition(q) /\ ~q.finish
              THEN [q0 EXCEPT !.finish = TRUE, !.calls = @ + 1]
              ELSE q0
    IN  IF q1.run >= maxRunningThreads THEN q1
        ELSE IF Len(q1.unf) = 0 THEN q1
        ELSE CallHandleTask(checkQueue(Shift(q1)), Head(q1.unf))

\* a handler's call of checkQueue on scheduler state q, with f the state
\* beforeExit would find: the scheduler's new state, and beforeExit's
\* synchronous part when checkQueue called it (120)
DriveWith(q, f) ==
    LET r == checkQueue([q EXCEPT !.deq = <<>>, !.sta = <<>>])
    IN  /\ SetSched(r)
        /\ SetFin(IF r.calls > q.calls THEN BeforeExitStart(f) ELSE f)

Drive(q) == DriveWith(q, Fin)

\* the process has not exited
Alive == exit = "none"

\* the observer emits chunk batches until it is disconnected or has ended
ObserverMayDiscover == connected /\ ~ended

\* the observer emits 'end' once; a notification already on its way when
\* disconnect() is called is still delivered
ObserverMayEnd == ~ended

\* the next ids of kind ty the observer announces, n of them
NextIds(ty, n) ==
    LET known == {k[2] : k \in {d \in discovered : d[1] = ty}}
        first == IF known = {} THEN 1
                 ELSE 1 + CHOOSE m \in known : \A o \in known : o <= m
    IN  [j \in 1..n |-> first + j - 1]

\* start 86-97 and 98-109: this.unfinishedTasks.push(...urls.map(...))
PushChunks(ty, ids) ==
    unfinishedTasks \o [j \in 1..Len(ids) |-> Task(ty, ids[j], 0)]

\* start 86-109: the 'new-video-chunks' / 'new-audio-chunks' handlers
OnNewChunks(ty, n) ==
    /\ Alive /\ ObserverMayDiscover
    /\ LET ids == NextIds(ty, n)
       IN  /\ Cardinality(discovered) + n <= MaxChunks
           /\ discovered' = discovered \cup {<<ty, ids[j]>> : j \in 1..n}
           /\ Drive([Sched EXCEPT !.unf = PushChunks(ty, ids)])
    /\ UNCHANGED <<envVars, ended, interrupts, exhausted>>

\* start 110-113: the 'end' handler
OnEnd ==
    /\ Alive /\ ObserverMayEnd
    /\ ended' = TRUE
    /\ Drive([Sched EXCEPT !.stop = TRUE])
    /\ UNCHANGED <<envVars, interrupts, discovered, exhausted>>

\* the else branch of the SIGINT handler without its process.exit()
ForcedExitMissing ==
    UNCHANGED <<schedVars, finVars>>

\* start 78-81: process.exit() of the SIGINT handler
ForcedExit ==
    /\ exit' = "forced"
    /\ UNCHANGED <<schedVars, finishedTasks, outputFiles, connected,
                   workDirExists, pc, seqs, survivors, dropCounter, idx,
                   fatalError, mergeCalls,
             mergeErrors>>

\* start 72-82: the SIGINT handler
OnSigint ==
    /\ Alive
    /\ interrupts' = interrupts + 1
    /\ IF ~stopFlag
       THEN DriveWith([Sched EXCEPT !.stop = TRUE],
                      [Fin EXCEPT !.connected = FALSE])
       ELSE ForcedExit
    /\ UNCHANGED <<envVars, ended, discovered, exhausted>>

\* a resolved fetch that does not call checkQueue
FetchSuccessNoDrive(t) ==
    /\ Alive /\ t \in inFlight
    /\ SetSched([Sched EXCEPT !.inf = @ \ {t}, !.run = @ - 1,
                              !.done = ~@, !.deq = <<>>, !.sta = <<>>])
    /\ SetFin([Fin EXCEPT !.finishedTasks = Append(@, t)])
    /\ UNCHANGED <<envVars, ended, interrupts, discovered, exhausted>>

\* checkQueue 134-138: handleTask(task) resolved
FetchSuccess(t) ==
    /\ Alive /\ t \in inFlight
    /\ DriveWith([Sched EXCEPT !.inf = @ \ {t}, !.run = @ - 1,
                                !.done = ~@],
                 [Fin EXCEPT !.finishedTasks = Append(@, t)])
    /\ UNCHANGED <<envVars, ended, interrupts, discovered, exhausted>>

\* a re-queue without a budget: the count starts again after the last retry
RequeueAgain(unf, u) ==
    IF u.retry <= RetryBudget THEN Append(unf, u)
    ELSE Append(unf, [u EXCEPT !.retry = 0])

\* checkQueue 143-145: where the task goes after task.retry++ gave u
Requeue(unf, u) == IF u.retry <= RetryBudget THEN Append(unf, u) ELSE unf

\* checkQueue 139-147: handleTask(task) rejected
FetchFail(t) ==
    /\ Alive /\ t \in inFlight
    /\ Cardinality(flaky \cup {Key(t)}) <= MaxFlaky
    /\ flaky' = flaky \cup {Key(t)}
    /\ LET u == [t EXCEPT !.retry = @ + 1]
       IN  /\ exhausted' = IF u.retry <= RetryBudget THEN exhausted
                           ELSE exhausted \cup {Key(u)}
           /\ Drive([Sched EXCEPT !.inf = @ \ {t}, !.run = @ - 1,
                                  !.done = ~@,
                                  !.unf = Requeue(@, u)])
    /\ UNCHANGED <<keepTemporaryFiles, isLowLatencyLiveStream,
                   isFFmpegAvailable, dropedTasks, maxRunningThreads, ended,
                   interrupts, discovered>>

\* ------------------------------------------- beforeExit after its awaits
othVars == <<schedVars, envVars, ended, interrupts, discovered, exhausted>>

\* beforeExit 210: await mergeFiles(video chunks) settled
MergeFilesVideoDone(ok) ==
    /\ Alive /\ pc = "mergeFilesVideo"
    /\ SetFin([Fin EXCEPT !.pc = IF ok THEN "mergeFilesAudio" ELSE "rejected"])
    /\ UNCHANGED othVars

\* beforeExit 212-215: await mergeFiles(audio chunks) settled, merge() called
MergeFilesAudioDone(ok) ==
    /\ Alive /\ pc = "mergeFilesAudio"
    /\ SetFin(IF ok THEN [Fin EXCEPT !.pc = "merge", !.mergeCalls = @ + 1]
              ELSE [Fin EXCEPT !.pc = "rejected"])
    /\ UNCHANGED othVars

\* beforeExit 215-223, then the next iteration or clean()
MergeDone(ok) ==
    /\ Alive /\ pc = "merge"
    /\ LET f == IF ok
                THEN [Fin EXCEPT !.outputFiles =
                                     Append(@, DirectItem(seqs, idx))]
                ELSE [Fin EXCEPT !.mergeErrors = @ + 1]
       IN  SetFin(IterStart(f, idx + 1))
    /\ UNCHANGED othVars

\* beforeExit 240-248, then the next iteration or clean(); the description
\* of an empty group throws inside the try
MergeSequencesDone(ok) ==
    /\ Alive /\ pc = "mergeSequences"
    /\ LET f == IF ok /\ seqs[idx] # <<>>
                THEN [Fin EXCEPT !.outputFiles =
                                     Append(@, ListItem(seqs, idx))]
                ELSE [Fin EXCEPT !.mergeErrors = @ + 1]
       IN  SetFin(IterStart(f, idx + 1))
    /\ UNCHANGED othVars

\* clean 257-270: await deleteDirectory settled
DeleteDirectoryDone ==
    /\ Alive /\ pc = "deleteDirectory"
    /\ SetFin([Fin EXCEPT !.workDirExists = FALSE, !.connected = FALSE,
                          !.exit = "clean", !.pc = "exited"])
    /\ UNCHANGED othVars

\* beforeExit's promise was rejected and nobody handles it (120): a runtime
\* that treats unhandled rejections as fatal ends the process, another one
\* only warns and the run stays where it is
UnhandledRejection ==
    /\ Alive /\ pc = "rejected"
    /\ exit' = "crash"
    /\ UNCHANGED <<othVars, finishedTasks, outputFiles, connected,
                   workDirExists, pc, seqs, survivors, dropCounter, idx,
                   fatalError, mergeCalls,
             mergeErrors>>

\* ------------------------------------------------------- specifications
\* the fields as the class declares them (38-45), after start() returned
InitFields ==
    /\ unfinishedTasks = <<>>
    /\ dropedTasks = <<>>
    /\ outputFiles = <<>>
    /\ nowRunningThreads = 0
    /\ stopFlag = FALSE
    /\ finishFlag = FALSE
    /\ keepTemporaryFiles \in BOOLEAN
    /\ isLowLatencyLiveStream \in BOOLEAN
    /\ isFFmpegAvailable \in BOOLEAN
    /\ inFlight = {}
    /\ connected = TRUE
    /\ ended = FALSE
    /\ exit = "none"
    /\ workDirExists = TRUE
    /\ pc = "idle"
    /\ seqs = <<>>
    /\ survivors = <<>>
    /\ dropCounter = 0
    /\ idx = 0
    /\ fatalError = FALSE
    /\ mergeCalls = 0
    /\ beforeExitCalls = 0
    /\ mergeErrors = 0
    /\ dequeued = <<>>
    /\ started = <<>>
    /\ settled = FALSE
    /\ completionSeen = 0
    /\ interrupts = 0
    /\ exhausted = {}

Init ==
    /\ InitFields
    /\ maxRunningThreads = MaxThreads
    /\ finishedTasks = <<>>
    /\ discovered = {}
    /\ flaky = {}

Next ==
    \/ \E ty \in Kinds, n \in 1..MaxBatch : OnNewChunks(ty, n)
    \/ OnEnd
    \/ OnSigint
    \/ \E t \in inFlight : FetchSuccess(t)
    \/ \E t \in inFlight : FetchFail(t)
    \/ \E ok \in BOOLEAN : MergeFilesVideoDone(ok)
    \/ \E ok \in BOOLEAN : MergeFilesAudioDone(ok)
    \/ \E ok \in BOOLEAN : MergeDone(ok)
    \/ \E ok \in BOOLEAN : MergeSequencesDone(ok)
    \/ DeleteDirectoryDone
    \/ UnhandledRejection

Spec == Init /\ [][Next]_vars

\* the scheduler on its own: a run with any cap up to the number of chunks,
\* the temporary files kept and the list-based strategy, followed up to
\* the call of beforeExit
SchedInit ==
    /\ InitFields
    /\ maxRunningThreads \in 1..MaxChunks
    /\ keepTemporaryFiles /\ ~isLowLatencyLiveStream /\ isFFmpegAvailable
    /\ finishedTasks = <<>>
    /\ discovered = {}
    /\ flaky = {}

SchedNext ==
    \/ \E ty \in Kinds, n \in 1..MaxBatch : OnNewChunks(ty, n)
    \/ OnEnd
    \/ OnSigint
    \/ \E t \in inFlight : FetchSuccess(t)
    \/ \E t \in inFlight : FetchFail(t)

SchedSpec == SchedInit /\ [][SchedNext]_vars

\* a fetch that has been started settles: download() resolves, rejects or
\* times out (275). The steps of SchedNext that do this are those of
\* FetchSuccess and FetchFail, the two that flip settled.
FetchSettles == Alive /\ inFlight # {} /\ settled' = ~settled

\* the scheduler of a run with the cap MaxThreads
LiveInit == SchedInit /\ maxRunningThreads = MaxThreads

\* the scheduler when a started fetch eventually settles
LiveSpec == LiveInit /\ [][SchedNext]_vars /\ WF_settled(FetchSettles)

\* the ids of S as a sequence, ascending or descending
RECURSIVE IdSeq(_, _)
IdSeq(S, up) ==
    IF S = {} THEN <<>>
    ELSE LET m == CHOOSE x \in S : \A y \in S : IF up THEN x <= y ELSE x >= y
         IN  <<m>> \o IdSeq(S \ {m}, up)

TasksOf(ty, ids) == [j \in 1..Len(ids) |-> Task(ty, ids[j], 0)]

\* the planner's inputs: every chunk of the stream has been fetched, videos
\* V and audios A have finished, in one of two completion orders; the stream
\* has not ended yet
PlanInit ==
    /\ InitFields
    /\ maxRunningThreads = MaxThreads
    /\ flaky = {}
    /\ \E V \in SUBSET PlanIds, A \in SUBSET PlanIds, up \in BOOLEAN :
          /\ finishedTasks = IF up
                THEN TasksOf("video", IdSeq(V, TRUE)) \o TasksOf("audio", IdSeq(A, TRUE))
                ELSE TasksOf("audio", IdSeq(A, FALSE)) \o TasksOf("video", IdSeq(V, FALSE))
          /\ discovered = ({"video"} \X V) \cup ({"audio"} \X A)

\* the run from there on when the observer announces no further chunk
PlanNext ==
    \/ OnEnd
    \/ OnSigint
    \/ \E ok \in BOOLEAN : MergeFilesVideoDone(ok)
    \/ \E ok \in BOOLEAN : MergeFilesAudioDone(ok)
    \/ \E ok \in BOOLEAN : MergeDone(ok)
    \/ \E ok \in BOOLEAN : MergeSequencesDone(ok)
    \/ DeleteDirectoryDone
    \/ UnhandledRejection

PlanSpec == PlanInit /\ [][PlanNext]_vars

\* ================================================================ claims
VideoDone == FilterType(finishedTasks, "video")

AudioDone == FilterType(finishedTasks, "audio")

InFlightKeys == {Key(t) : t \in inFlight}

\* in how many of the four places the task with key k is
Places(k) ==
    (IF k \in Keys(unfinishedTasks) THEN 1 ELSE 0)
    + (IF k \in InFlightKeys THEN 1 ELSE 0)
    + (IF k \in Keys(finishedTasks) THEN 1 ELSE 0)
    + (IF k \in Keys(dropedTasks) THEN 1 ELSE 0)

\* C1 (as claimed): once finalize has been triggered, the tasks in
\* finishedTasks plus the tasks in dropedTasks are all the tasks discovery
\* ever enqueued.
C1_Conservation ==
    finishFlag =>
        Len(finishedTasks) + Len(dropedTasks) = Cardinality(discovered)

\* C2: the number of running fetches stays between 0 and maxRunningThreads,
\* and it is the number of fetches actually awaited.
C2_ConcurrencyBound ==
    /\ 0 <= nowRunningThreads
    /\ nowRunningThreads <= maxRunningThreads
    /\ nowRunningThreads = Cardinality(inFlight)

\* the cap binds: all slots are taken and a task is waiting
C2_Witness ==
    nowRunningThreads = maxRunningThreads /\ Len(unfinishedTasks) > 0

\* C3: beforeExit is called at most once, and exactly once as soon as a
\* checkQueue has seen the completion condition true.
C3_FinalizeOnce ==
    /\ beforeExitCalls <= 1
    /\ completionSeen >= 1 => beforeExitCalls = 1
    /\ finishFlag <=> beforeExitCalls = 1

\* the completion condition was seen true a second time
C3_Witness ==
    completionSeen >= 2 /\ beforeExitCalls = 1

\* C4 (as claimed): a task that failed more than RetryBudget times is in
\* dropedTasks, and neither queued, nor in flight, nor finished.
C4_RetryBudget ==
    \A k \in exhausted :
        /\ k \in Keys(dropedTasks)
        /\ k \notin Keys(unfinishedTasks)
        /\ k \notin InFlightKeys
        /\ k \notin Keys(finishedTasks)

\* C5 (as claimed): every discovered task is in exactly one of the pending
\* queue, the fetches in flight, finishedTasks and dropedTasks.
C5_TaskLocation ==
    \A k \in discovered : Places(k) = 1

\* C6 (as claimed): an exit forced before finalize was triggered takes a
\* second interrupt, the first one never forces it, whether or not the stream
\* has ended; the first interrupt leaves the run draining with the source
\* disconnected, and finalize is not triggered while a task is pending or in
\* flight.
C6_FirstInterrupt ==
    /\ (exit = "forced" /\ ~finishFlag) => interrupts >= 2
    /\ (interrupts = 1 /\ exit # "forced") => (stopFlag /\ ~connected)
    /\ finishFlag => (Len(unfinishedTasks) = 0 /\ inFlight = {})

\* C7: a second interrupt before finalize was triggered ends the process at
\* once; beforeExit has not run and never runs, nothing was merged, no
\* OutputItem exists and the working directory is still there.
C7_SecondInterrupt ==
    /\ [][(interrupts = 1 /\ interrupts' = 2 /\ ~finishFlag)
            => (exit' = "forced" /\ ~finishFlag')]_vars
    /\ []((exit = "forced" /\ ~finishFlag)
            => (/\ beforeExitCalls = 0
                /\ mergeCalls = 0
                /\ outputFiles = <<>>
                /\ workDirExists
                /\ pc = "idle"))
    /\ [][exit # "forced"]_vars

\* forced exit on the second interrupt with fetches still in flight, in a run
\* whose cleanup would have removed the directory
C7_Witness ==
    /\ exit = "forced" /\ interrupts = 2 /\ ~finishFlag
    /\ inFlight # {} /\ ~keepTemporaryFiles

\* C8: when beforeExit has run on a non-empty finishedTasks with different
\* numbers of video and audio tasks, no group was computed, nothing was
\* merged, no OutputItem exists, the working directory is still there, and
\* the process has exited after logging the error.
C8_ParityMismatch ==
    (beforeExitCalls >= 1 /\ Len(finishedTasks) > 0
        /\ Len(VideoDone) # Len(AudioDone))
    => /\ seqs = <<>>
       /\ mergeCalls = 0
       /\ outputFiles = <<>>
       /\ workDirExists
       /\ fatalError
       /\ exit = "parity"
       /\ pc = "exited"

\* a mismatch with both kinds present, retention not requested
C8_Witness ==
    /\ exit = "parity" /\ ~keepTemporaryFiles
    /\ Len(VideoDone) > 0 /\ Len(AudioDone) > 0

RECURSIVE Flatten(_)
Flatten(sq) == IF sq = <<>> THEN <<>> ELSE Head(sq) \o Flatten(Tail(sq))

\* sq is the list of the maximal runs of consecutive ids of fv
IsMaximalRuns(sq, fv) ==
    /\ Flatten(sq) = fv
    /\ \A i \in 1..Len(sq) :
          /\ sq[i] # <<>>
          /\ \A j \in 1..(Len(sq[i]) - 1) : sq[i][j + 1].id = sq[i][j].id + 1
    /\ \A i \in 1..(Len(sq) - 1) :
          sq[i + 1] # <<>> /\ sq[i] # <<>>
          /\ sq[i + 1][1].id > sq[i][Len(sq[i])].id + 1

\* C9 (as claimed): the groups beforeExit computes for a non-empty list of
\* surviving video tasks are exactly the maximal runs of consecutive ids of
\* these tasks, in ascending order.
C9_Contiguity ==
    (seqs # <<>> /\ survivors # <<>>) => IsMaximalRuns(seqs, survivors)

\* C10: after the orphan filter, the surviving video tasks are exactly the
\* finished video tasks whose id is the id of a finished audio task, each
\* once and in the order of the finished video tasks.
C10_OrphanMembership ==
    seqs # <<>> =>
        /\ Range(survivors) =
              {v \in Range(VideoDone) :
                  \E a \in Range(AudioDone) : a.id = v.id}
        /\ Cardinality(Range(survivors)) = Len(survivors)
        /\ \A i, j \in 1..Len(survivors) :
              i < j => survivors[i].id < survivors[j].id

\* the filter discarded a video task and kept another
C10_Witness ==
    /\ seqs # <<>>
    /\ Len(survivors) > 0
    /\ Len(survivors) < Len(VideoDone)

\* C11 (as claimed): after the orphan filter, dropCounter is the number of
\* finished video tasks the filter discarded for lacking a finished audio
\* task of the same id.
C11_DropCount ==
    seqs # <<>> => dropCounter = Len(VideoDone) - Len(survivors)

\* C12: every download a handler starts for a task with retry count r gets
\* the timeout 15000 for r = 0, 30000 for r = 1 and 45000 for 2 <= r <= 10;
\* the timeout never exceeds 45000 and does not decrease as r grows.
C12_TimeoutScaling ==
    /\ \A i \in 1..Len(started) :
          LET r == started[i].task.retry
              ms == started[i].timeout
          IN  /\ r \in 0..10
              /\ ms = (IF r = 0 THEN 15000 ELSE IF r = 1 THEN 30000 ELSE 45000)
              /\ ms <= 45000
    /\ \A i, j \in 1..Len(started) :
          started[i].task.retry <= started[j].task.retry
              => started[i].timeout <= started[j].timeout

\* a download was started for a task on its last permitted attempt
C12_Witness ==
    \E i \in 1..Len(started) : started[i].task.retry = 10

\* C13 (as claimed): when the merge loop is over, a merge has been attempted
\* for every group, whatever failed while an earlier group was merged. (The
\* runs whose report of the groups throws are left to C20.)
C13_MergeIsolation ==
    (seqs # <<>> /\ ~ReportThrows(seqs) /\ Len(seqs) >= 2
        /\ pc \in {"rejected", "deleteDirectory", "exited"}
        /\ exit \in {"none", "clean", "crash"})
    => mergeCalls = Len(seqs)

\* C14 (as claimed): when ffmpeg was found unavailable at start, finalize
\* calls neither merge nor mergeSequences.
C14_DownloadOnly ==
    ~isFFmpegAvailable => mergeCalls = 0

\* C15 (as claimed): when the run has terminated after a failure was
\* reported during finalize (the parity error, or a merge logged as failed),
\* the working directory still exists.
C15_ManualRecovery ==
    (exit # "none" /\ (fatalError \/ mergeErrors > 0)) => workDirExists

\* C16: beforeExit has been called only if no fetch is running, the queue
\* is empty and the stop flag is set; with a fetch in flight, a task queued
\* or the stop flag clear it has not been called.
C16_FinalizeGuard ==
    beforeExitCalls >= 1 =>
        /\ nowRunningThreads = 0
        /\ inFlight = {}
        /\ Len(unfinishedTasks) = 0
        /\ stopFlag

\* finalize was triggered by the completion of the last fetch, after the
\* stream had ended
C16_Witness ==
    /\ beforeExitCalls = 1
    /\ Len(finishedTasks) > 0
    /\ ended /\ interrupts = 0

\* C17: once the stop flag is set, beforeExit is eventually called, however
\* the fetches fail, unless a second interrupt ends the process first.
C17_DrainLiveness ==
    stopFlag ~> (finishFlag \/ exit = "forced")

\* the queue drained after the stop although a task used up its retries
C17_Witness ==
    /\ finishFlag /\ exit # "forced"
    /\ exhausted # {}
    /\ Len(finishedTasks) > 0

\* C18: whenever a handler has returned to the event loop, either the
\* running fetches are at the cap or no task is pending.
C18_WorkConserving ==
    nowRunningThreads = maxRunningThreads \/ Len(unfinishedTasks) = 0

\* a fetch has completed and its handler has started the next pending task
C18_Witness ==
    /\ Len(finishedTasks) > 0
    /\ nowRunningThreads = maxRunningThreads
    /\ started # <<>>
    /\ exit = "none"

\* the tasks of the handleTask calls, in call order
StartedTasks == [i \in 1..Len(started) |-> started[i].task]

\* C19 (as claimed): tasks are dispatched in the order of the pending
\* queue, head first: the downloads a handler starts are started in the
\* order in which their tasks stood in the queue.
C19_FifoDispatch ==
    StartedTasks = dequeued

\* C20 (as claimed): once the parity check has passed, beforeExit runs to
\* its end and calls clean(); it is never abandoned with its promise
\* rejected. (Stated for the list-based strategy, where no merge outcome can
\* reject the promise.)
C20_FinalizeCompletes ==
    (finishFlag /\ ~isLowLatencyLiveStream) => pc # "rejected"

====
